---- MODULE Spec2Model ----
(***************************************************************************)
(* A model of pyrtl/helperfuncs.py: the helper functions that turn values  *)
(* into WireVectors and build multiplexers, concatenations and bitwise     *)
(* reductions as LogicNets appended to a block.                            *)
(*                                                                         *)
(* The state is the table of WireVectors created so far (wires), the list  *)
(* of LogicNets of every block (logic), the ambient working block          *)
(* (working), a record of the last helper call with its outcome (last) and *)
(* the number of calls made (calls).                                       *)
(* Every helper is an operator from a machine record [wires, logic] to a   *)
(* result record [m, err, ret]; an exception is a result whose err is not  *)
(* "none", carrying the machine as it was when the exception was raised.   *)
(***************************************************************************)
EXTENDS Integers, Sequences, FiniteSets, TLC

VARIABLES wires, logic, working, last, calls

vars == <<wires, logic, working, last, calls>>

\* ------------------------------------------------------------------ values

\* Python's None (an unset bitwidth, an unset block).
None == -1

\* The blocks of the design; one of them is the working block.
Blocks == {1, 2}

\* Arguments as the helpers see them: a WireVector, an int (or const string),
\* a memory._MemIndexed marker of a memory of block v, anything else.
WV(i) == [kind |-> "wire", v |-> i]
IntV(n) == [kind |-> "int", v |-> n]
MemV(b) == [kind |-> "mem", v |-> b]
OtherV == [kind |-> "other", v |-> 0]

\* The bitwidth argument of as_wires: None, an int, or the string '0'.
BwNone == [t |-> "none", n |-> 0]
BwInt(n) == [t |-> "int", n |-> n]
BwStr0 == [t |-> "str", n |-> 0]

\* Python truth value of a bitwidth argument (None and 0 are false).
Truthy(bw) == (bw.t = "int" /\ bw.n # 0) \/ bw.t = "str"

\* Exceptions.
ErrNotWire == "PyrtlError: expecting a wirevector, int, or verilog-style const string"
ErrZeroWidth == "PyrtlError: bitwidth must be >= 1"
ErrNoWidth == "PyrtlError: attempting to use wirevector with no defined bitwidth"
ErrMuxArity == "PyrtlError: mux select line is k bits, but selecting from n inputs"
ErrSelect == "PyrtlError: select input to the mux must be 1-bit wirevector"
ErrBlocks == "PyrtlError: get_block passed WireVectors from different blocks"
ErrConcat == "PyrtlError: concat requires at least 1 argument"
ErrConst == "PyrtlError: constant does not fit the bitwidth"
TypeError == "TypeError"
ValueError == "ValueError"

Ok(m, ret) == [m |-> m, err |-> "none", ret |-> ret]
Raise(m, e) == [m |-> m, err |-> e, ret |-> <<>>]

Pow2(n) == 2 ^ n

RECURSIVE SumSeq(_)
SumSeq(s) == IF s = <<>> THEN 0 ELSE Head(s) + SumSeq(Tail(s))

SetMax(S) == CHOOSE x \in S : \A y \in S : y <= x

\* The indices lo .. hi as a tuple (a Python slice of range(bitwidth)).
Range(lo, hi) == [i \in 1..(hi - lo + 1) |-> lo + i - 1]

\* ------------------------------------------------- wires, nets, constants

\* wire.WireVector(bitwidth, block): a new row of the wire table.
NewWire(m, b, w, c) ==
    [m EXCEPT !.wires = Append(@, [block |-> b, bitwidth |-> w, const |-> c])]

\* The id of the wire NewWire adds.
NextId(m) == Len(m.wires) + 1

\* core.LogicNet(op, op_param, args, dests).
LogicNet(op, param, args, dests) ==
    [op |-> op, op_param |-> param, args |-> args, dests |-> dests]

\* block.add_net(net): the net goes to the end of the block's list.
add_net(m, b, net) == [m EXCEPT !.logic[b] = Append(@, net)]

\* len(wv) is the bitwidth of the WireVector.
WLen(m, i) == m.wires[i].bitwidth

\* core.working_block(block): the block given, or the ambient working block.
working_block(block) == IF block = None THEN working ELSE block

\* The least number of bits that represent n (1 for 0).
RECURSIVE MinBits(_)
MinBits(n) == IF n < 2 THEN 1 ELSE 1 + MinBits(n \div 2)

\* wire.Const(val, bitwidth, block): a constant WireVector, no net.
Const(m, val, bw, blk) ==
    LET w == IF bw.t = "none" THEN MinBits(val) ELSE bw.n
    IN  IF bw.t = "str" \/ w < 1 \/ val >= Pow2(w)
        THEN Raise(m, ErrConst)
        ELSE Ok(NewWire(m, blk, w, val), <<NextId(m)>>)

\* mem._readaccess(index): a read port net and its data wire, in the memory's block.
readaccess(m, memblock) ==
    LET m1 == NewWire(m, memblock, 1, None)
        out == NextId(m)
    IN  Ok(add_net(m1, memblock, LogicNet("m", <<>>, <<>>, <<out>>)), <<out>>)

\* wv[idxs]: a new wire made of the bits idxs of wv (bit 0 is the least
\* significant), driven by a bit-select net.
Slice(m, i, idxs) ==
    LET b == m.wires[i].block
        m1 == NewWire(m, b, Len(idxs), None)
        out == NextId(m)
    IN  Ok(add_net(m1, b, LogicNet("s", idxs, <<i>>, <<out>>)), <<out>>)

\* wv.zero_extended(bitwidth): wv itself when it has the width already, else
\* the concatenation of a zero constant (most significant) and wv.
zero_extended(m, i, bw) ==
    LET numext == bw - WLen(m, i)
        b == m.wires[i].block
    IN  IF numext = 0 THEN Ok(m, <<i>>)
        ELSE IF numext < 0 THEN Raise(m, ErrConst)
        ELSE LET m1 == NewWire(m, b, numext, 0)
                 z == NextId(m)
                 m2 == NewWire(m1, b, bw, None)
                 out == NextId(m1)
             IN  Ok(add_net(m2, b, LogicNet("c", <<>>, <<z, i>>, <<out>>)), <<out>>)

\* ---------------------------------------------------------------- as_wires

\* Truncate as val[-bitwidth:]: the high bits are kept.
Truncate_high(m, i, n) == Slice(m, i, Range(WLen(m, i) - n, WLen(m, i) - 1))

\* val[:bitwidth]: the low bitwidth bits of the wire.
Truncate(m, i, n) == Slice(m, i, Range(0, n - 1))

\* The comparison bitwidth == '0' of the width check.
IsZeroWidth(bw) == bw = BwStr0

\* The branch of as_wires for a WireVector that is wider than the bitwidth
\* asked for (or as wide, or no bitwidth asked for).
NotWider(m, i, bw, truncating) ==
    IF Truthy(bw) /\ truncating /\ bw.n < WLen(m, i)
    THEN Truncate(m, i, bw.n)
    ELSE Ok(m, <<i>>)

as_wires(m, val, bw, truncating, block) ==
    LET blk == working_block(block)
    IN  IF val.kind = "int" THEN Const(m, val.v, bw, blk)
        ELSE IF val.kind = "mem" THEN readaccess(m, val.v)
        ELSE IF val.kind # "wire" THEN Raise(m, ErrNotWire)
        ELSE IF IsZeroWidth(bw) THEN Raise(m, ErrZeroWidth)
        ELSE IF WLen(m, val.v) = None THEN Raise(m, ErrNoWidth)
        ELSE IF Truthy(bw) /\ bw.n > WLen(m, val.v)
             THEN zero_extended(m, val.v, bw.n)
        ELSE NotWider(m, val.v, bw, truncating)

\* --------------------------------------------------------------- get_block

\* ArgBlock without the case of the memory marker.
ArgBlock_wires_only(m, arg) ==
    IF arg.kind = "wire" THEN m.wires[arg.v].block ELSE None

\* The block an argument contributes: a marker its memory's block, a
\* WireVector its own block, anything else None.
ArgBlock(m, arg) ==
    IF arg.kind = "mem" THEN arg.v
    ELSE IF arg.kind = "wire" THEN m.wires[arg.v].block
    ELSE None

\* The set blocks of get_block after the None entries are removed.
ArgBlocks(m, arglist) ==
    {ArgBlock(m, arglist[i]) : i \in 1..Len(arglist)} \ {None}

get_block(m, arglist) ==
    LET blocks == ArgBlocks(m, arglist)
    IN  IF Cardinality(blocks) > 1 THEN Raise(m, ErrBlocks)
        ELSE IF Cardinality(blocks) >= 1 THEN Ok(m, <<CHOOSE b \in blocks : TRUE>>)
        ELSE Ok(m, <<working_block(None)>>)

\* ---------------------------------------------------------- match_bitwidth

SetMin(S) == CHOOSE x \in S : \A y \in S : x <= y

\* MaxLen with min for max.
MaxLen_min(m, ids) == SetMin({WLen(m, ids[i]) : i \in 1..Len(ids)})

\* max(len(wv) for wv in args).
MaxLen(m, ids) == SetMax({WLen(m, ids[i]) : i \in 1..Len(ids)})

\* The generator (wv.zero_extended(max_len) for wv in args), run to its end:
\* the arguments are extended one after the other, in order.
RECURSIVE ExtendAll(_, _, _, _)
ExtendAll(m, ids, maxlen, done) ==
    IF ids = <<>> THEN Ok(m, done)
    ELSE LET r == zero_extended(m, Head(ids), maxlen)
         IN  IF r.err # "none" THEN r
             ELSE ExtendAll(r.m, Tail(ids), maxlen, Append(done, r.ret[1]))

\* match_bitwidth that hands the arguments back as they are.
match_bitwidth_unextended(m, ids) == Ok(m, ids)

match_bitwidth(m, ids) ==
    IF ids = <<>> THEN Raise(m, ValueError)
    ELSE IF \E i \in 1..Len(ids) : WLen(m, ids[i]) = None THEN Raise(m, TypeError)
    ELSE ExtendAll(m, ids, MaxLen(m, ids), <<>>)

\* --------------------------------------------------------------------- mux

\* The net _mux2 builds: op 'x' with args (select, a, b) and one output.
SelectNet(s, a, b, out) == LogicNet("x", <<>>, <<s, a, b>>, <<out>>)

_mux2(m, select, falsecase, truecase) ==
    LET g == get_block(m, <<select, falsecase, truecase>>)
    IN  IF g.err # "none" THEN g ELSE
    LET block == g.ret[1]
        s == as_wires(m, select, BwNone, TRUE, block)
    IN  IF s.err # "none" THEN s ELSE
    LET a == as_wires(s.m, falsecase, BwNone, TRUE, block)
    IN  IF a.err # "none" THEN a ELSE
    LET b == as_wires(a.m, truecase, BwNone, TRUE, block)
    IN  IF b.err # "none" THEN b ELSE
        IF WLen(b.m, s.ret[1]) # 1 THEN Raise(b.m, ErrSelect) ELSE
    LET ab == match_bitwidth(b.m, <<a.ret[1], b.ret[1]>>)
    IN  IF ab.err # "none" THEN ab ELSE
    LET resultlen == WLen(ab.m, ab.ret[1])
        m1 == NewWire(ab.m, block, resultlen, None)
        outwire == NextId(ab.m)
    IN  Ok(add_net(m1, block, SelectNet(s.ret[1], ab.ret[1], ab.ret[2], outwire)),
           <<outwire>>)

\* TopBit as select[0]: the tree is keyed on the wrong end of the select.
TopBit_lsb(k) == <<0>>

\* select[-1]: the most significant bit of a k-bit select.
TopBit(k) == <<k - 1>>

\* select[0:-1]: all bits of a k-bit select but the most significant.
LowBits(k) == Range(0, k - 2)

\* ins[:half] and ins[half:].
LowerHalf(ins, half) == SubSeq(ins, 1, half)
UpperHalf(ins, half) == SubSeq(ins, half + 1, Len(ins))

\* ArityMismatch that only refuses too few inputs.
ArityMismatch_too_few(k, n) == Pow2(k) > n

\* The check 2**len(select) != len(ins).
ArityMismatch(k, n) == Pow2(k) # n

RECURSIVE muxbody(_, _, _)
muxbody(m, select, ins) ==
    LET g == get_block(m, <<select>> \o ins)
    IN  IF g.err # "none" THEN g ELSE
    LET s == as_wires(m, select, BwNone, TRUE, g.ret[1])
    IN  IF s.err # "none" THEN s ELSE
    LET sel == s.ret[1]
        k == WLen(s.m, sel)
    IN  IF ArityMismatch(k, Len(ins)) THEN Raise(s.m, ErrMuxArity)
        ELSE IF k = 1 THEN _mux2(s.m, WV(sel), ins[1], ins[2])
        ELSE
    LET half == Len(ins) \div 2
        top == Slice(s.m, sel, TopBit(k))
        lo1 == Slice(top.m, sel, LowBits(k))
        f == muxbody(lo1.m, WV(lo1.ret[1]), LowerHalf(ins, half))
    IN  IF f.err # "none" THEN f ELSE
    LET lo2 == Slice(f.m, sel, LowBits(k))
        t == muxbody(lo2.m, WV(lo2.ret[1]), UpperHalf(ins, half))
    IN  IF t.err # "none" THEN t
        ELSE _mux2(t.m, WV(top.ret[1]), WV(f.ret[1]), WV(t.ret[1]))

\* mux(select, falsecase, truecase, *rest): a call that does not give the two
\* named cases is refused by the signature before the body runs.
mux(m, select, ins) ==
    IF Len(ins) < 2 THEN Raise(m, TypeError) ELSE muxbody(m, select, ins)

\* ------------------------------------------------------------------ concat

\* [as_wires(arg, block=block) for arg in args], left to right.
RECURSIVE CoerceAll(_, _, _, _)
CoerceAll(m, args, block, done) ==
    IF args = <<>> THEN Ok(m, done)
    ELSE LET r == as_wires(m, Head(args), BwNone, TRUE, block)
         IN  IF r.err # "none" THEN r
             ELSE CoerceAll(r.m, Tail(args), block, Append(done, r.ret[1]))

\* sum([len(arg) for arg in arg_wirevectors]).
FinalWidth(m, ids) == SumSeq([i \in 1..Len(ids) |-> WLen(m, ids[i])])

\* ConcatNet with the arguments in reverse (the first argument least significant).
ConcatNet_reversed(ids, out) ==
    LogicNet("c", <<>>, [i \in 1..Len(ids) |-> ids[Len(ids) + 1 - i]], <<out>>)

\* The net concat builds: op 'c', the coerced arguments in the order given.
ConcatNet(ids, out) == LogicNet("c", <<>>, ids, <<out>>)

\* The branch of concat for two or more arguments.
concat_many(m, args, block) ==
    LET c == CoerceAll(m, args, block, <<>>)
    IN  IF c.err # "none" THEN c ELSE
    LET m1 == NewWire(c.m, block, FinalWidth(c.m, c.ret), None)
        outwire == NextId(c.m)
    IN  Ok(add_net(m1, block, ConcatNet(c.ret, outwire)), <<outwire>>)

\* concat_one without its special case: one argument is concatenated like many.
concat_one_always_net(m, args, block) == concat_many(m, args, block)

\* The branch of concat for exactly one argument.
concat_one(m, args, block) == as_wires(m, args[1], BwNone, TRUE, block)

concat(m, args) ==
    LET g == get_block(m, args)
    IN  IF g.err # "none" THEN g
        ELSE IF Len(args) <= 0 THEN Raise(m, ErrConcat)
        ELSE IF Len(args) = 1 THEN concat_one(m, args, g.ret[1])
        ELSE concat_many(m, args, g.ret[1])

\* ------------------------------------------------- and/or/xor over all bits

\* WireVector.__and__ / __or__ / __xor__ (self, other): one net of the
\* operator over the two width-matched operands.
logicop(m, op, self, other) ==
    LET ab == match_bitwidth(m, <<self, other>>)
    IN  IF ab.err # "none" THEN ab ELSE
    LET b == m.wires[self].block
        m1 == NewWire(ab.m, b, WLen(ab.m, ab.ret[1]), None)
        out == NextId(ab.m)
    IN  Ok(add_net(m1, b, LogicNet(op, <<>>, ab.ret, <<out>>)), <<out>>)

\* A call func(*args) of the bound method func = getattr(self, op): the
\* method gets self and then args, and the operators take (self, other).
BoundCall(m, op, self, args) ==
    IF Len(args) # 1 THEN Raise(m, TypeError)
    ELSE logicop(m, op, self, args[1])

\* func(vector[0], rest) with func = getattr(vector[0], op): vector[0] is
\* sliced for getattr and again for the argument list.
RECURSIVE _apply_op_over_all_bits(_, _, _)
_apply_op_over_all_bits(m, op, vector) ==
    IF WLen(m, vector) = None THEN Raise(m, TypeError)
    ELSE IF WLen(m, vector) = 1 THEN Ok(m, <<vector>>)
    ELSE
    LET tail == Slice(m, vector, Range(1, WLen(m, vector) - 1))
        rest == _apply_op_over_all_bits(tail.m, op, tail.ret[1])
    IN  IF rest.err # "none" THEN rest ELSE
    LET self == Slice(rest.m, vector, <<0>>)
        arg0 == Slice(self.m, vector, <<0>>)
    IN  BoundCall(arg0.m, op, self.ret[1], <<arg0.ret[1], rest.ret[1]>>)

and_all_bits(m, vector) == _apply_op_over_all_bits(m, "&", vector)
or_all_bits(m, vector) == _apply_op_over_all_bits(m, "|", vector)
xor_all_bits(m, vector) == _apply_op_over_all_bits(m, "^", vector)
parity(m, vector) == _apply_op_over_all_bits(m, "^", vector)

\* ------------------------------------------------ the value a netlist computes

\* Bit i of the number v (bit 0 is the least significant).
Bit(v, i) == (v \div Pow2(i)) % 2

\* The value of a bit-select net: bit j of the output is bit idxs[j] of the input.
RECURSIVE SelectBits(_, _)
SelectBits(v, idxs) ==
    IF idxs = <<>> THEN 0
    ELSE Bit(v, Head(idxs)) + 2 * SelectBits(v, Tail(idxs))

\* The value of a concatenation: the first argument is the most significant.
RECURSIVE ConcatValue(_, _, _)
ConcatValue(ws, vals, ids) ==
    IF ids = <<>> THEN 0
    ELSE vals[Head(ids)] * Pow2(SumSeq([i \in 1..(Len(ids) - 1) |-> ws[Tail(ids)[i]].bitwidth]))
         + ConcatValue(ws, vals, Tail(ids))

\* A bitwise operator over two numbers of w bits.
RECURSIVE Bitwise(_, _, _, _)
Bitwise(op, a, b, w) ==
    IF w = 0 THEN 0
    ELSE LET x == a % 2
             y == b % 2
             z == IF op = "&" THEN x * y
                  ELSE IF op = "|" THEN (IF x + y > 0 THEN 1 ELSE 0)
                  ELSE (x + y) % 2
         IN  z + 2 * Bitwise(op, a \div 2, b \div 2, w - 1)

\* The value a net drives on its output, given the values of its inputs.
NetValue(net, ws, vals) ==
    IF net.op = "x"
    THEN (IF vals[net.args[1]] = 0 THEN vals[net.args[2]] ELSE vals[net.args[3]])
    ELSE IF net.op = "c" THEN ConcatValue(ws, vals, net.args)
    ELSE IF net.op = "s" THEN SelectBits(vals[net.args[1]], net.op_param)
    ELSE IF net.op \in {"&", "|", "^"}
    THEN Bitwise(net.op, vals[net.args[1]], vals[net.args[2]], ws[net.dests[1]].bitwidth)
    ELSE vals[net.dests[1]]

\* The nets are evaluated in the order they were added: every net reads
\* wires that exist before it.
RECURSIVE SimNets(_, _, _)
SimNets(nets, ws, vals) ==
    IF nets = <<>> THEN vals
    ELSE SimNets(Tail(nets), ws,
                 [vals EXCEPT ![Head(nets).dests[1]] = NetValue(Head(nets), ws, vals)])

\* The values of all wires of block b when the undriven wires carry env:
\* a constant carries its value, a wire env does not name carries 0.
Sim(ws, nets, env) ==
    SimNets(nets, ws,
            [i \in 1..Len(ws) |->
                IF ws[i].const # None THEN ws[i].const
                ELSE IF i \in DOMAIN env THEN env[i] ELSE 0])

\* Every assignment of values to the wires S that fits their bitwidths.
Envs(ws, S) ==
    LET widest == SetMax({ws[i].bitwidth : i \in S} \cup {0})
    IN  {e \in [S -> 0..(Pow2(widest) - 1)] : \A i \in S : e[i] < Pow2(ws[i].bitwidth)}

\* ------------------------------------------------------- the calls (actions)

\* The machine the helpers work on.
Machine == [wires |-> wires, logic |-> logic]

\* The WireVectors declared before any helper is called:
\* n (1 bit), x, y (2 bits), t (3 bits) and u (no bitwidth yet) in block 1,
\* z (2 bits) in block 2.
Declared ==
    << [block |-> 1, bitwidth |-> 1, const |-> None],
       [block |-> 1, bitwidth |-> 2, const |-> None],
       [block |-> 1, bitwidth |-> 2, const |-> None],
       [block |-> 1, bitwidth |-> 3, const |-> None],
       [block |-> 2, bitwidth |-> 2, const |-> None],
       [block |-> 1, bitwidth |-> None, const |-> None] >>

NoCall ==
    [op |-> "none", sel |-> OtherV, args |-> <<>>, bw |-> BwNone, trunc |-> TRUE,
     err |-> "none", ret |-> <<>>]

Init ==
    /\ wires = Declared
    /\ logic = [b \in Blocks |-> <<>>]
    /\ working \in Blocks
    /\ last = NoCall
    /\ calls = 0

\* A call returns (or raises): the machine it leaves behind becomes the state.
Return(op, sel, args, bw, trunc, r) ==
    /\ wires' = r.m.wires
    /\ logic' = r.m.logic
    /\ last' = [op |-> op, sel |-> sel, args |-> args, bw |-> bw, trunc |-> trunc,
                err |-> r.err, ret |-> r.ret]
    /\ calls' = calls + 1
    /\ UNCHANGED working

Ids(args) == [i \in 1..Len(args) |-> args[i].v]

AsWires(val, bw, truncating) ==
    Return("as_wires", OtherV, <<val>>, bw, truncating,
           as_wires(Machine, val, bw, truncating, None))

AndAllBits(v) == Return("and_all_bits", OtherV, <<v>>, BwNone, TRUE, and_all_bits(Machine, v.v))
OrAllBits(v) == Return("or_all_bits", OtherV, <<v>>, BwNone, TRUE, or_all_bits(Machine, v.v))
XorAllBits(v) == Return("xor_all_bits", OtherV, <<v>>, BwNone, TRUE, xor_all_bits(Machine, v.v))
Parity(v) == Return("parity", OtherV, <<v>>, BwNone, TRUE, parity(Machine, v.v))

Mux(select, ins) == Return("mux", select, ins, BwNone, TRUE, mux(Machine, select, ins))

GetBlock(args) == Return("get_block", OtherV, args, BwNone, TRUE, get_block(Machine, args))

Concat(args) == Return("concat", OtherV, args, BwNone, TRUE, concat(Machine, args))

MatchBitwidth(args) ==
    Return("match_bitwidth", OtherV, args, BwNone, TRUE, match_bitwidth(Machine, Ids(args)))

\* ------------------------------------------------------------ the arguments

MaxShort == 2
MaxMid == 4
MaxIns == 8
MaxArgs == 3
MaxCalls == 3

Lists(S, lo, hi) == UNION {[1..k -> S] : k \in lo..hi}

DeclaredWires == {WV(i) : i \in 1..Len(Declared)}

\* Every kind of argument: the declared wires, ints, memory markers of both
\* blocks, and a value that is none of these.
AllVals == DeclaredWires \cup {IntV(0), IntV(3), MemV(1), MemV(2), OtherV}

\* Wires of one block with defined bitwidths 1 and 2.
MidVals == {WV(1), WV(2), WV(3)}

\* Two wires of the same block and bitwidth.
SameVals == {WV(2), WV(3)}

Selectors == {WV(1), WV(2), WV(4), WV(6), IntV(1)}

MuxInputs ==
    Lists(AllVals, 0, MaxShort) \cup Lists(MidVals, MaxShort + 1, MaxMid)
        \cup Lists(SameVals, MaxMid + 1, MaxIns)

ConcatArgs == Lists({WV(1), WV(2), WV(5), WV(6), IntV(3), MemV(1)}, 0, MaxArgs)

BlockArgs == Lists({WV(1), WV(5), IntV(0), MemV(1), MemV(2), OtherV}, 0, MaxArgs)

MatchArgs == Lists(DeclaredWires \ {WV(3)}, 0, MaxArgs)

Bitwidths == {BwNone, BwStr0} \cup {BwInt(k) : k \in 0..4}

\* Short scenarios for runs of several calls: wires n and x (1 and 2 bits),
\* the wire p returned by the call before (x when it returned none), lists
\* that mix the blocks or hold the wire without a bitwidth, and selects of 1,
\* 2 and 3 bits.
Prev == IF last.err = "none" /\ last.op \in {"mux", "concat"} THEN WV(last.ret[1]) ELSE WV(2)

SeqSelectors == {WV(1), WV(2), WV(4)}

SeqInputs(p) ==
    Lists({WV(1), p}, 2, 2)
        \cup { <<p>>, <<WV(2), WV(5)>>, <<WV(1), p, p>>,
               <<WV(1), WV(2), p, WV(1)>>, <<p, WV(2), WV(1), WV(2)>>,
               <<WV(2), WV(2), WV(2), WV(6)>>,
               <<WV(1), p, WV(2), WV(1), p, p, WV(1), WV(2)>> }

SeqConcatArgs(p) ==
    { <<>>, <<p>>, <<IntV(3)>>, <<WV(6)>>, <<WV(1), p>>, <<p, IntV(3), WV(1)>>,
      <<WV(1), WV(5)>>, <<WV(5), WV(5)>> }

\* ------------------------------------------------------- the specifications

\* One helper call on the declared wires.
CallAsWires ==
    /\ calls = 0
    /\ \E val \in AllVals, bw \in Bitwidths, tr \in BOOLEAN : AsWires(val, bw, tr)

CallAndAllBits == calls = 0 /\ \E v \in DeclaredWires : AndAllBits(v)

CallOrAllBits == calls = 0 /\ \E v \in DeclaredWires : OrAllBits(v)

CallXorAllBits == calls = 0 /\ \E v \in DeclaredWires : XorAllBits(v)

CallParity == calls = 0 /\ \E v \in DeclaredWires : Parity(v)

CallMux == calls = 0 /\ \E sel \in Selectors, ins \in MuxInputs : Mux(sel, ins)

CallGetBlock == calls = 0 /\ \E args \in BlockArgs : GetBlock(args)

CallConcat == calls = 0 /\ \E args \in ConcatArgs : Concat(args)

CallMatchBitwidth == calls = 0 /\ \E args \in MatchArgs : MatchBitwidth(args)

NextCall ==
    \/ CallAsWires
    \/ CallAndAllBits
    \/ CallOrAllBits
    \/ CallXorAllBits
    \/ CallParity
    \/ CallMux
    \/ CallGetBlock
    \/ CallConcat
    \/ CallMatchBitwidth

SpecCall == Init /\ [][NextCall]_vars

\* A run of mux and concat calls that build one design, a call after the other.
SeqMux ==
    /\ calls < MaxCalls
    /\ \E sel \in SeqSelectors, ins \in SeqInputs(Prev) : Mux(sel, ins)

SeqConcat ==
    /\ calls < MaxCalls
    /\ \E args \in SeqConcatArgs(Prev) : Concat(args)

Next == SeqMux \/ SeqConcat

Spec == Init /\ [][Next]_vars

\* ------------------------------------------------------------ the properties

\* The value of wire i in the netlist of its block, the undriven wires carrying env.
ValueOf(i, env) == Sim(wires, logic[wires[i].block], env)[i]

AllWires(args) == \A i \in 1..Len(args) : args[i].kind = "wire"

\* The blocks that the WireVectors and memory markers among args belong to.
Contributing(args) ==
    {wires[args[i].v].block : i \in {j \in 1..Len(args) : args[j].kind = "wire"}}
        \cup {args[i].v : i \in {j \in 1..Len(args) : args[j].kind = "mem"}}

OneBlock(args) == Cardinality(Contributing(args)) <= 1

\* The nets of all blocks with opcode op.
CountOp(lg, op) ==
    SumSeq([b \in 1..Cardinality(Blocks) |->
              Cardinality({i \in 1..Len(lg[b]) : lg[b][i].op = op})])

NoNets == \A b \in Blocks : logic[b] = <<>>

\* A mux call whose select is a declared wire of k bits, 1 <= k <= 3.
MuxBySelector ==
    /\ last.op = "mux"
    /\ last.sel.kind = "wire"
    /\ Declared[last.sel.v].bitwidth \in 1..3

SelWidth == Declared[last.sel.v].bitwidth

\* The inputs of the mux call are 2^k wires of one bitwidth.
SameWidthInputs ==
    /\ MuxBySelector
    /\ Len(last.args) = Pow2(SelWidth)
    /\ AllWires(last.args)
    /\ \E w \in 1..3 : \A i \in 1..Len(last.args) : Declared[last.args[i].v].bitwidth = w

\* C1: a mux over 2^k same-width inputs (k = 1, 2, 3) of the select's block
\* builds a network whose output is inputs[s] for every select value s and
\* every value of the inputs; select bit 0 is the least significant.  (Inputs
\* of another block than the select's build no network: get_block refuses them.)
C1_MuxSelectsInput ==
    SameWidthInputs =>
        IF OneBlock(<<last.sel>> \o last.args)
        THEN /\ last.err = "none"
             /\ \A env \in Envs(wires, {last.sel.v} \cup {last.args[i].v : i \in 1..Len(last.args)}) :
                    ValueOf(last.ret[1], env) = env[last.args[env[last.sel.v] + 1].v]
        ELSE last.err = ErrBlocks

\* C1 witness: a successful 8-input mux over two different wires.
C1_Witness ==
    /\ SameWidthInputs
    /\ SelWidth = 3
    /\ last.err = "none"
    /\ last.args[1] # last.args[2]
    /\ last.args[2] # last.args[5]

\* C2 as stated: whenever the number of inputs is not 2^k, mux fails with
\* the arity error.
C2_Original ==
    (MuxBySelector /\ Len(last.args) # Pow2(SelWidth)) => last.err = ErrMuxArity

\* C2, amended: whenever the number of inputs is not 2^k, mux returns no
\* signal; the error is the arity error when two or more inputs are given and
\* select and inputs belong to one block, the TypeError of the call itself
\* when fewer than two inputs are given, and get_block's error when the
\* arguments belong to different blocks.
C2_MuxArity ==
    (MuxBySelector /\ Len(last.args) # Pow2(SelWidth)) =>
        /\ last.ret = <<>>
        /\ last.err = IF Len(last.args) < 2 THEN TypeError
                      ELSE IF ~OneBlock(<<last.sel>> \o last.args) THEN ErrBlocks
                      ELSE ErrMuxArity

\* C2 witness: three inputs under a 2-bit select, refused with the arity error.
C2_Witness ==
    /\ MuxBySelector
    /\ SelWidth = 2
    /\ Len(last.args) = 3
    /\ last.err = ErrMuxArity

\* The boolean reduction of the w low bits of v.
RECURSIVE BoolReduce(_, _, _)
BoolReduce(op, v, w) ==
    IF w = 1 THEN v % 2
    ELSE Bitwise(op, v % 2, BoolReduce(op, v \div 2, w - 1), 1)

ReduceOp ==
    IF last.op = "and_all_bits" THEN "&"
    ELSE IF last.op = "or_all_bits" THEN "|"
    ELSE "^"

\* C3 as stated: and_all_bits / or_all_bits / xor_all_bits / parity of a
\* vector of 1 to 8 bits return a signal whose value is the AND / OR / XOR of
\* the bits, the vector itself when it has one bit.
C3_ReduceComputes ==
    (/\ last.op \in {"and_all_bits", "or_all_bits", "xor_all_bits", "parity"}
     /\ Declared[last.args[1].v].bitwidth \in 1..8) =>
        /\ last.err = "none"
        /\ Declared[last.args[1].v].bitwidth = 1 => last.ret = <<last.args[1].v>>
        /\ \A env \in Envs(wires, {last.args[1].v}) :
              ValueOf(last.ret[1], env) =
                  BoolReduce(ReduceOp, env[last.args[1].v], Declared[last.args[1].v].bitwidth)

\* An argument as_wires turns into a wire: an int, a memory marker, or a
\* declared wire whose bitwidth is defined.
Coercible(arg) ==
    \/ arg.kind \in {"int", "mem"}
    \/ arg.kind = "wire" /\ Declared[arg.v].bitwidth # None

\* The bitwidth of the wire an argument is coerced to.
ArgWidth(arg) ==
    IF arg.kind = "wire" THEN Declared[arg.v].bitwidth
    ELSE IF arg.kind = "int" THEN MinBits(arg.v)
    ELSE 1

\* The value an argument carries: a wire what env gives it, an int itself, a
\* memory read the 0 that an undriven wire carries.
ArgValue(arg, env) ==
    IF arg.kind = "wire" THEN env[arg.v]
    ELSE IF arg.kind = "int" THEN arg.v
    ELSE 0

\* The number whose bits are those of the arguments, the first argument first
\* (most significant).
RECURSIVE MsbFirst(_, _, _)
MsbFirst(args, env, acc) ==
    IF args = <<>> THEN acc
    ELSE MsbFirst(Tail(args), env, acc * Pow2(ArgWidth(Head(args))) + ArgValue(Head(args), env))

WireIds(args) == {args[i].v : i \in {j \in 1..Len(args) : args[j].kind = "wire"}}

ConcatOfMany == last.op = "concat" /\ Len(last.args) >= 2

ConcatWellFormed ==
    /\ ConcatOfMany
    /\ OneBlock(last.args)
    /\ \A i \in 1..Len(last.args) : Coercible(last.args[i])

\* C4: concat of two or more arguments (of one block, each a value as_wires
\* accepts) adds exactly one concatenate net; its inputs are the coerced
\* arguments in the order given, its output is as wide as the inputs together
\* and carries args[0] in the most significant bits, the later arguments
\* below.  Arguments that are not of one block, or not coercible, raise.
C4_ConcatOneNode ==
    ConcatOfMany =>
        IF ConcatWellFormed
        THEN LET out == last.ret[1]
                 nets == logic[wires[out].block]
                 net == nets[Len(nets)]
             IN  /\ last.err = "none"
                 /\ CountOp(logic, "c") = 1
                 /\ net.op = "c"
                 /\ net.dests = <<out>>
                 /\ Len(net.args) = Len(last.args)
                 /\ \A i \in 1..Len(last.args) :
                       /\ last.args[i].kind = "wire" => net.args[i] = last.args[i].v
                       /\ last.args[i].kind = "int" => wires[net.args[i]].const = last.args[i].v
                       /\ wires[net.args[i]].bitwidth = ArgWidth(last.args[i])
                 /\ wires[out].bitwidth =
                       SumSeq([i \in 1..Len(last.args) |-> ArgWidth(last.args[i])])
                 /\ \A env \in Envs(wires, WireIds(last.args)) :
                       ValueOf(out, env) = MsbFirst(last.args, env, 0)
        ELSE last.err # "none" /\ CountOp(logic, "c") = 0

\* C4 witness: a concat of three arguments of different bitwidths has returned.
C4_Witness ==
    /\ ConcatWellFormed
    /\ last.err = "none"
    /\ Len(last.args) = 3
    /\ last.args[1] = WV(1)
    /\ last.args[2] = WV(2)

MatchOfDefined ==
    /\ last.op = "match_bitwidth"
    /\ Len(last.args) >= 1
    /\ \A i \in 1..Len(last.args) : Declared[last.args[i].v].bitwidth # None

WidestArg == SetMax({Declared[last.args[i].v].bitwidth : i \in 1..Len(last.args)})

\* C5: match_bitwidth of a non-empty list of wires with defined bitwidths
\* returns one wire per argument, in the order of the arguments, each as wide
\* as the widest argument and carrying the unsigned value of its argument.
C5_MatchBitwidth ==
    MatchOfDefined =>
        /\ last.err = "none"
        /\ Len(last.ret) = Len(last.args)
        /\ \A i \in 1..Len(last.args) :
              /\ wires[last.ret[i]].bitwidth = WidestArg
              /\ wires[last.ret[i]].bitwidth >= Declared[last.args[i].v].bitwidth
              /\ \A env \in Envs(wires, WireIds(last.args)) :
                    ValueOf(last.ret[i], env) = env[last.args[i].v]

\* C5 witness: a 1-bit and a 3-bit wire matched, the narrow one first.
C5_Witness ==
    /\ MatchOfDefined
    /\ last.err = "none"
    /\ last.args = <<WV(1), WV(4)>>
    /\ last.ret[1] # 1

\* C6: get_block fails with the different-blocks error when the wires and
\* memory markers among its arguments belong to two or more blocks, returns
\* the one block they all belong to, returns the working block when no
\* argument is a wire or a marker, and never adds a net.
C6_GetBlock ==
    last.op = "get_block" =>
        /\ Cardinality(Contributing(last.args)) >= 2 =>
              last.err = ErrBlocks
        /\ Cardinality(Contributing(last.args)) = 1 =>
              last.err = "none" /\ {last.ret[1]} = Contributing(last.args)
        /\ Contributing(last.args) = {} =>
              last.err = "none" /\ last.ret = <<working>>
        /\ NoNets
        /\ wires = Declared

\* C6 witness: a memory marker of block 2 and a wire of block 1.
C6_Witness ==
    /\ last.op = "get_block"
    /\ last.args = <<MemV(2), WV(1)>>
    /\ last.err = ErrBlocks

\* as_wires of a declared wire of w bits with an int bitwidth r, 0 < r < w.
Narrowing ==
    /\ last.op = "as_wires"
    /\ last.args[1].kind = "wire"
    /\ Declared[last.args[1].v].bitwidth # None
    /\ last.bw.t = "int"
    /\ 0 < last.bw.n
    /\ last.bw.n < Declared[last.args[1].v].bitwidth

\* The result of a truncating as_wires: an r-bit wire with the low r bits.
LowBitsKept ==
    /\ last.err = "none"
    /\ wires[last.ret[1]].bitwidth = last.bw.n
    /\ \A env \in Envs(wires, {last.args[1].v}) :
          ValueOf(last.ret[1], env) = env[last.args[1].v] % Pow2(last.bw.n)

\* C7 as stated: narrowing with truncating false raises; with truncating true
\* it returns an r-bit wire with the low-order r bits.
C7_Original ==
    Narrowing => IF last.trunc THEN LowBitsKept ELSE last.err # "none"

\* C7, amended: narrowing with truncating false raises nothing and returns
\* the wire itself, still w bits wide, and adds no net; with truncating true
\* it returns an r-bit wire with the low-order r bits.
C7_Narrowing ==
    Narrowing =>
        IF last.trunc THEN LowBitsKept
        ELSE /\ last.err = "none"
             /\ last.ret = <<last.args[1].v>>
             /\ wires = Declared
             /\ NoNets

\* C7 witness: the 3-bit wire asked for at 2 bits, truncating false.
C7_Witness ==
    /\ Narrowing
    /\ ~last.trunc
    /\ last.args[1] = WV(4)
    /\ last.bw = BwInt(2)
    /\ last.ret = <<4>>

\* C8 as stated: as_wires of a wire with the int bitwidth 0 raises the
\* width error and returns no wire.
C8_ZeroWidthRaises ==
    (/\ last.op = "as_wires"
     /\ last.args[1].kind = "wire"
     /\ last.bw = BwInt(0)) =>
        last.err # "none" /\ last.ret = <<>>

\* Every select net has three inputs, a 1-bit select and two operands as
\* wide as its single output.
SelectNetsWellFormed ==
    \A b \in Blocks : \A i \in 1..Len(logic[b]) :
        LET net == logic[b][i]
        IN  net.op = "x" =>
              /\ Len(net.args) = 3
              /\ Len(net.dests) = 1
              /\ wires[net.args[1]].bitwidth = 1
              /\ wires[net.args[2]].bitwidth = wires[net.dests[1]].bitwidth
              /\ wires[net.args[3]].bitwidth = wires[net.dests[1]].bitwidth
              /\ wires[net.dests[1]].bitwidth >= 1

\* The wire a mux returns is as wide as its widest input.
MuxWidthIsMax ==
    (last.op = "mux" /\ last.err = "none") =>
        wires[last.ret[1]].bitwidth =
            SetMax({wires[last.args[i].v].bitwidth : i \in 1..Len(last.args)})

\* A mux that returns has added 2^k - 1 select nets, k the bits of its select.
MuxAddsSelects ==
    (calls' # calls /\ last'.op = "mux" /\ last'.err = "none") =>
        CountOp(logic', "x") = CountOp(logic, "x") + Pow2(wires[last'.sel.v].bitwidth) - 1

\* C9: after any run of mux calls that return or raise, over inputs of equal
\* or different bitwidths, every select net is well formed, the wire a mux
\* returns is as wide as its widest input, and a mux that returns has added
\* exactly 2^k - 1 select nets.
C9_SelectNets ==
    /\ [](SelectNetsWellFormed /\ MuxWidthIsMax)
    /\ [][MuxAddsSelects]_vars

\* C9 witness: a second call, a 4-input mux over 1-bit and 2-bit wires, has
\* returned after an earlier mux has returned.
C9_Witness ==
    /\ calls = 2
    /\ last.op = "mux"
    /\ last.err = "none"
    /\ Len(last.args) = 4
    /\ CountOp(logic, "x") > 3
    /\ \E i, j \in 1..4 : wires[last.args[i].v].bitwidth # wires[last.args[j].v].bitwidth

IsPrefix(s, t) == Len(s) <= Len(t) /\ SubSeq(t, 1, Len(s)) = s

\* A call leaves the nets that were there in place, in front of what it adds.
AppendOnly == \A b \in Blocks : IsPrefix(logic[b], logic'[b])

\* A mux refused for its arity, or a concat of nothing, adds no net.
RefusedBeforeAnyNet ==
    /\ (last'.op = "mux" /\ last'.err = ErrMuxArity) => logic' = logic
    /\ (last'.op = "concat" /\ last'.args = <<>>) =>
          last'.err = ErrConcat /\ logic' = logic

\* A concat of one argument adds no net and returns the argument coerced: a
\* wire itself, an int as a constant wire of its value.
ConcatOfOne ==
    (calls' # calls /\ last'.op = "concat" /\ Len(last'.args) = 1) =>
        /\ logic' = logic
        /\ (last'.args[1].kind = "wire" /\ wires[last'.args[1].v].bitwidth # None) =>
              last'.err = "none" /\ last'.ret = <<last'.args[1].v>>
        /\ last'.args[1].kind = "int" =>
              /\ last'.err = "none"
              /\ last'.ret = <<Len(wires) + 1>>
              /\ wires'[last'.ret[1]].const = last'.args[1].v

====
